---- MODULE Spec2Model ----
(***************************************************************************)
(* Model of the study-assistant tool backend: the progress store and the   *)
(* track_progress tool (src/tool/functions.py, src/tool/models.py), the    *)
(* direct track-progress view (src/tool/views.py, src/tool/serializers.py),*)
(* the tool decorator / registry and the RPC endpoint (src/tool/rpc.py),   *)
(* and the five text-generation tools with the summarize view.             *)
(*                                                                         *)
(* Hours are integers counting hundredths of an hour (DecimalField with    *)
(* decimal_places=2); every input of the model is a two-decimal value.     *)
(* The database is modelled at read-committed isolation: a query sees the  *)
(* committed rows, and transaction.atomic() takes no lock on what it read  *)
(* (the code uses filter().first(), not select_for_update()).              *)
(***************************************************************************)
EXTENDS Integers, Sequences, FiniteSets, TLC

\* ------------------------------------------------------------------ bounds
\* Calls (tool invocations and view posts) made in one behaviour.
MaxCalls == 3
\* The clock can pass midnight this many times.
MaxDay == 1
\* Entries the tool registry can reach (six are registered at import).
MaxTools == 8

\* Concurrent request workers.
Procs == {"p1", "p2"}
Users == {"u1"}
Topics == {"algebra"}

\* ------------------------------------------------------- program constants
\* StudyProgress.hours: DecimalField(max_digits=5, decimal_places=2).
MaxDigits == 5
DecimalPlaces == 2

RECURSIVE Pow10(_)
Pow10(n) == IF n = 0 THEN 1 ELSE 10 * Pow10(n - 1)

\* One hour, in the unit of the hours column (hundredths).
OneHour == Pow10(DecimalPlaces)

\* Largest magnitude, in hundredths, that a max_digits=5 column holds: 999.99.
MaxStored == Pow10(MaxDigits) - 1

\* ------------------------------------------------------------------ inputs
\* The (hours in hundredths, Python type of hours, report_only) a direct caller
\* of the tool passes: a JSON number arrives as float or int, the view's
\* serializer yields decimal.Decimal.
DirectArgs ==
    { [h |-> 100, kind |-> "float", ro |-> FALSE],
      [h |-> 100, kind |-> "int", ro |-> FALSE],
      [h |-> 0, kind |-> "float", ro |-> FALSE],
      [h |-> -100, kind |-> "int", ro |-> FALSE],
      [h |-> 100, kind |-> "float", ro |-> TRUE] }

\* The (hours, report_only) a client posts to the track-progress view; the
\* serializer parses hours to Decimal.
ViewArgs ==
    { [h |-> 50, ro |-> FALSE],
      [h |-> 99950, ro |-> FALSE],
      [h |-> 0, ro |-> TRUE],
      [h |-> 0, ro |-> FALSE],
      [h |-> -100, ro |-> TRUE],
      [h |-> 100000, ro |-> FALSE] }

VARIABLES
    store,      \* the StudyProgress table: sequence of rows, index = primary key
    today,      \* the calendar day of the clock
    pc,         \* per worker: "idle", "query" (before the SELECT), "write", "done"
    call,       \* per worker: the arguments of its current / last call
    entry,      \* per worker: progress_entry, the row object read by the query
    result,     \* per worker: what its last call returned or raised
    ncalls,     \* calls made so far
    base,       \* history: total stored for the call's key when the call began
    overlaps,   \* history: number of other calls that overlapped the call
    seqOnly,    \* history: every call so far was a sequential recording call, hours > 0, same day
    seqSum,     \* history: per key, the hours contributed while seqOnly
    seqFail,    \* history: some call failed while seqOnly
    registry,   \* functions._registered_tools: the list of tool metadata
    rpcReq,     \* the last request sent to the RPC endpoint
    rpcResp,    \* the response to it
    invoked,    \* history: the handlers that request invoked
    api_key,    \* settings.OPENAI_API_KEY as the tools read it
    gen         \* the generation-tool invocation in progress / last made

progressVars == <<store, today, pc, call, entry, result, ncalls, base, overlaps,
                  seqOnly, seqSum, seqFail>>

toolVars == <<registry, rpcReq, rpcResp, invoked, api_key, gen>>

vars == <<store, today, pc, call, entry, result, ncalls, base, overlaps,
          seqOnly, seqSum, seqFail, registry, rpcReq, rpcResp, invoked,
          api_key, gen>>

\* ------------------------------------------------------------------ errors
NoErr == [kind |-> "", msg |-> <<>>]

\* Decimal.__iadd__(float): progress_entry.hours += hours with a float argument.
DecimalFloatTypeError ==
    [kind |-> "TypeError",
     msg |-> <<"unsupported operand type(s) for +=: 'decimal.Decimal' and 'float'">>]

\* A value that does not fit max_digits=5 is refused when the row is written.
DecimalOverflowError ==
    [kind |-> "InvalidOperation", msg |-> <<"quantize result has too many digits">>]

\* functions.py:279-281  except Exception as e: raise Exception(f"Error recording progress: {e}")
ProgressError(e) ==
    [kind |-> "Exception", msg |-> <<"Error recording progress: ">> \o e.msg]

\* ------------------------------------------------------------------ results
NoEntry == [id |-> 0, hours |-> 0]

NoCall ==
    [via |-> "none", user_id |-> "", topic |-> "", hours |-> 0, kind |-> "",
     report_only |-> FALSE, current_date |-> 0]

NoLog == ""

\* An HTTP response: status code and body (a sequence of text pieces).
NoResponse == [code |-> 0, body |-> <<>>]

\* status: "none" (no call yet / in flight), "ok" (returned), "error" (raised),
\* "invalid" (the view's serializer refused the request).
NoResult ==
    [status |-> "none", text |-> "", delta |-> 0, total |-> 0,
     err |-> NoErr, raised |-> NoErr, origin |-> NoErr, log |-> NoLog, response |-> NoResponse]

Returned(text, delta, total) ==
    [status |-> "ok", text |-> text, delta |-> delta, total |-> total,
     err |-> NoErr, raised |-> NoErr, origin |-> NoErr, log |-> NoLog, response |-> NoResponse]

\* `origin` is the failure at the point where it happened, `raised` the one the
\* tool function raised, `err` the one that reaches the caller.
Raised(e, origin) ==
    [status |-> "error", text |-> "", delta |-> 0, total |-> 0,
     err |-> NoErr, raised |-> e, origin |-> origin, log |-> NoLog, response |-> NoResponse]

\* ------------------------------------------------------------ the database
Row(u, t, h, d) == [user_id |-> u, topic |-> t, hours |-> h, day |-> d]

Matching(st, u, t, d) ==
    {i \in 1..Len(st) : st[i].user_id = u /\ st[i].topic = t /\ st[i].day = d}

Lowest(S) == CHOOSE i \in S : \A j \in S : i <= j

\* functions.py:247-251  StudyProgress.objects.filter(user_id=, topic=,
\* timestamp__date=).first(): the matching row of lowest primary key, or None.
QueryFirst(st, u, t, d) ==
    LET m == Matching(st, u, t, d) IN
    IF m = {} THEN NoEntry ELSE [id |-> Lowest(m), hours |-> st[Lowest(m)].hours]

\* DecimalField(max_digits=5, decimal_places=2): the value written must fit.
Fits(h) == -MaxStored <= h /\ h <= MaxStored

\* -------------------------------------------------- track_progress, by step
\* One step's effect: where the call goes next, the row object it holds, the
\* table, and what it returns or raises (status "none" while it goes on).
Step(next, e, st, r) == [pc |-> next, entry |-> e, store |-> st, result |-> r]

\* A report that upserts: get_or_create in place of filter().first().
ReportOnly_creates(c, e, st) ==
    IF e.id # 0
    THEN Step("done", e, st, Returned("Your recorded progress", 0, e.hours))
    ELSE Step("done", e, Append(st, [user_id |-> c.user_id, topic |-> c.topic,
                                     hours |-> 0, day |-> c.current_date]),
              Returned("No study progress recorded", 0, 0))

\* functions.py:253-258  the report_only branch.
ReportOnly(c, e, st) ==
    IF e.id # 0
    THEN Step("done", e, st, Returned("Your recorded progress", 0, e.hours))
    ELSE Step("done", e, st, Returned("No study progress recorded", 0, 0))

\* functions.py:260-262  recording mode, hours <= 0.
NoNewHours(c, e, st) ==
    Step("done", e, st,
         Returned("No new hours added", 0, IF e.id # 0 THEN e.hours ELSE 0))

\* The guard written hours < 0: a call with hours = 0 goes on to write.
AfterQuery_strict(c, st) ==
    LET e == QueryFirst(st, c.user_id, c.topic, c.current_date) IN
    IF c.report_only THEN ReportOnly(c, e, st)
    ELSE IF c.hours < 0 THEN NoNewHours(c, e, st)
    ELSE Step("write", e, st, NoResult)

\* functions.py:246-262  the query and the branches that return without writing.
AfterQuery(c, st) ==
    LET e == QueryFirst(st, c.user_id, c.topic, c.current_date) IN
    IF c.report_only THEN ReportOnly(c, e, st)
    ELSE IF c.hours <= 0 THEN NoNewHours(c, e, st)
    ELSE Step("write", e, st, NoResult)

\* functions.py:264-268  progress_entry.hours += hours; progress_entry.save():
\* an UPDATE by primary key of the row object read earlier.
UpdateEntry(c, e, st) ==
    IF c.kind = "float"
    THEN Step("done", e, st,
              Raised(ProgressError(DecimalFloatTypeError), DecimalFloatTypeError))
    ELSE IF ~Fits(e.hours + c.hours)
    THEN Step("done", e, st,
              Raised(ProgressError(DecimalOverflowError), DecimalOverflowError))
    ELSE Step("done", [e EXCEPT !.hours = e.hours + c.hours],
              [st EXCEPT ![e.id].hours = e.hours + c.hours],
              Returned("Updated progress", c.hours, e.hours + c.hours))

\* functions.py:269-277  StudyProgress.objects.create(...): a new row, stamped
\* (auto_now_add) with the clock at the INSERT.
CreateEntry(c, e, st, now) ==
    IF ~Fits(c.hours)
    THEN Step("done", e, st,
              Raised(ProgressError(DecimalOverflowError), DecimalOverflowError))
    ELSE Step("done", [id |-> Len(st) + 1, hours |-> c.hours],
              Append(st, Row(c.user_id, c.topic, c.hours, now)),
              Returned("Successfully recorded", c.hours, c.hours))

\* functions.py:264-277  the write of a recording call with hours > 0.
AfterWrite(c, e, st, now) ==
    IF e.id # 0 THEN UpdateEntry(c, e, st) ELSE CreateEntry(c, e, st, now)

\* --------------------------------------------------- the invocation wrapper
\* A wrapper that turns every failure into a generic one of its own.
wrapper_replaces(r) ==
    IF r.status = "ok" THEN [r EXCEPT !.log = "Tool success"]
    ELSE IF r.status = "error"
    THEN [r EXCEPT !.err = [kind |-> "Exception", msg |-> <<"Tool failed">>],
                   !.log = "Generic error in tool"]
    ELSE r

\* functions.py:63-76  tool.wrapper: logs the outcome, then returns the result
\* or re-raises (a bare `raise`) what the tool function raised.
wrapper(r) ==
    IF r.status = "ok" THEN [r EXCEPT !.log = "Tool success"]
    ELSE IF r.status = "error"
    THEN IF r.raised.kind = "OpenAIAPIError"
         THEN [r EXCEPT !.err = r.raised, !.log = "OpenAI API error in tool"]
         ELSE [r EXCEPT !.err = r.raised, !.log = "Generic error in tool"]
    ELSE r

\* ------------------------------------------------ the track-progress view
\* serializers.py:23-55  TrackProgressInputSerializer: user_id required,
\* hours a decimal of at most 5 digits with min_value 0, and validate().
SerializerValid(posted_user, h, report_only) ==
    /\ posted_user # ""
    /\ 0 <= h /\ h <= MaxStored
    /\ ~(~report_only /\ h <= 0)

\* views.py:67-81  the response the view builds from what track_progress did.
ViewResponse(r) ==
    IF r.status = "ok" THEN [code |-> 200, body |-> <<r.text>>]
    ELSE IF r.status = "error"
    THEN [code |-> 500, body |-> <<"Failed to track progress: ">> \o r.err.msg]
    ELSE [code |-> 400, body |-> <<"validation errors">>]

\* What the caller of the tool sees: the view turns it into an HTTP response.
Deliver(c, r) ==
    IF r.status = "none" THEN r
    ELSE IF c.via = "view" THEN [wrapper(r) EXCEPT !.response = ViewResponse(wrapper(r))]
    ELSE wrapper(r)

\* ------------------------------------------------- the tool decorator
\* A function parameter: its name, its annotation and whether it has a default.
Param(n, ann, dflt) == [name |-> n, annotation |-> ann, has_default |-> dflt]

\* functions.py:36-42  the JSON-Schema type of an annotation.
ParamType(ann) ==
    IF ann = "int" THEN "integer"
    ELSE IF ann = "float" THEN "number"
    ELSE IF ann = "bool" THEN "boolean"
    ELSE "string"

RECURSIVE Properties(_)
\* functions.py:32-47  parameters_properties, in signature order, without 'kwargs'.
Properties(sig) ==
    IF sig = <<>> THEN <<>>
    ELSE IF Head(sig).name = "kwargs" THEN Properties(Tail(sig))
    ELSE <<[name |-> Head(sig).name, type |-> ParamType(Head(sig).annotation),
            description |-> ""]>> \o Properties(Tail(sig))

RECURSIVE Required(_)
\* functions.py:32-50  required_params: the parameters without a default.
Required(sig) ==
    IF sig = <<>> THEN <<>>
    ELSE IF Head(sig).name = "kwargs" THEN Required(Tail(sig))
    ELSE IF ~Head(sig).has_default THEN <<Head(sig).name>> \o Required(Tail(sig))
    ELSE Required(Tail(sig))

\* functions.py:52-60  tool_metadata.
ToolMetadata(name, description, sig) ==
    [name |-> name, description |-> description,
     inputSchema |-> [type |-> "object", properties |-> Properties(sig),
                      required |-> Required(sig)]]

\* functions.py:61  _registered_tools.append(tool_metadata): no look at the
\* names already there.
Registered(reg, name, description, sig) ==
    Append(reg, ToolMetadata(name, description, sig))

\* functions.py:90-238  the six @tool(...) applications run at import, in order.
ImportedTools ==
    << [name |-> "generateStudyPlan",
        description |-> "Generates a personalized study plan for a subject, duration, and daily hours in markdown.",
        sig |-> <<Param("subject", "str", FALSE), Param("duration_weeks", "int", FALSE),
                  Param("daily_hours", "float", FALSE)>>],
       [name |-> "summarizeText",
        description |-> "Summarizes provided text into key points or a concise overview.",
        sig |-> <<Param("text", "str", FALSE)>>],
       [name |-> "generateQuiz",
        description |-> "Generates a multiple-choice quiz on a topic with a given number of questions.",
        sig |-> <<Param("topic", "str", FALSE), Param("num_questions", "int", FALSE)>>],
       [name |-> "generateFlashcards",
        description |-> "Generates study flashcards for a topic with a specified number of cards.",
        sig |-> <<Param("topic", "str", FALSE), Param("num_cards", "int", FALSE)>>],
       [name |-> "recommendResources",
        description |-> "Recommends study resources for a subject and proficiency level.",
        sig |-> <<Param("subject", "str", FALSE), Param("proficiency_level", "str", FALSE),
                  Param("num_resources", "int", FALSE)>>],
       [name |-> "trackProgress",
        description |-> "Records or reports study progress, aggregating hours for the same day.",
        sig |-> <<Param("user_id", "str", FALSE), Param("topic", "str", FALSE),
                  Param("hours", "float", TRUE), Param("report_only", "bool", TRUE)>>] >>

RECURSIVE RegisterAll(_, _)
RegisterAll(reg, tools) ==
    IF tools = <<>> THEN reg
    ELSE RegisterAll(Registered(reg, Head(tools).name, Head(tools).description,
                                Head(tools).sig), Tail(tools))

\* functions.py:13, 90-238  _registered_tools once the module is imported.
RegistryAtImport == RegisterAll(<<>>, ImportedTools)

\* functions.py:81-83  get_registered_tools_metadata().
get_registered_tools_metadata(reg) == reg

ToolNames(reg) == {reg[i].name : i \in 1..Len(reg)}

\* Further applications of the decorator the model tries.
NewToolNames == {"trackProgress", "lookupWord"}
NewToolSigs ==
    { <<Param("word", "str", FALSE), Param("kwargs", "", FALSE)>>,
      <<Param("limit", "int", TRUE)>> }

\* ----------------------------------------------------- the RPC endpoint
\* The names the functions module binds at its top level (functions.py:1-238).
FunctionsNames ==
    {"inspect", "date", "openai", "structlog", "settings", "transaction",
     "StudyProgress", "log", "_registered_tools", "OpenAIAPIError", "tool",
     "get_registered_tools_metadata", "openai_client", "openai_model",
     "generate_study_plan", "summarize_text", "generate_quiz",
     "generate_flashcards", "recommend_resources", "track_progress"}

\* rpc.py:8  from .functions import get_registered_tools_metadata, get_tool_function
RpcImports == {"get_registered_tools_metadata", "get_tool_function"}

\* The import of rpc.py succeeds only if functions binds every name it imports.
RpcModuleLoads == RpcImports \subseteq FunctionsNames

\* The registry lookup rpc.py calls; functions.py does not define it. Modelled
\* from the specification: the handler registered under the name, or none.
get_tool_function(reg, name) ==
    IF name \in ToolNames(reg) THEN name ELSE "None"

\* JSON-RPC error codes used by the endpoint.
InvalidRequest == -32600
MethodNotFound == -32601
InternalError == -32603

NoRequest == [http_method |-> "", id |-> "None", method |-> "None", params |-> "None"]

NoRpcResp ==
    [kind |-> "none", http |-> 0, id |-> "None", code |-> 0, message |-> <<>>,
     result |-> "", tools |-> <<>>]

ErrorEnvelope(id, code, message, http) ==
    [kind |-> "error", http |-> http, id |-> id, code |-> code, message |-> message,
     result |-> "", tools |-> <<>>]

\* Requests: id and method are "None" when the body has no such key; params
\* "None" stands for the default {}; "list" is a params value that is no mapping.
RpcIds == {"None", "1", "req-7"}
RpcMethods == {"None", "", "trackProgress", "summarizeText", "noSuchTool"}
RpcParams == {"None", "good", "bad", "list"}

\* What calling a handler with the params does: it returns, or it raises
\* (func(**params) with params that do not fit raises TypeError).
HandlerOutcome(params, fate) ==
    IF params \in {"bad", "list"}
    THEN Raised([kind |-> "TypeError", msg |-> <<"got an unexpected keyword argument">>],
                [kind |-> "TypeError", msg |-> <<"got an unexpected keyword argument">>])
    ELSE IF fate = "raises"
    THEN Raised(ProgressError(DecimalOverflowError), DecimalOverflowError)
    ELSE Returned("tool result", 0, 0)

\* rpc.py:15-53  rpc_endpoint. `fate` decides what the handler does when called.
rpc_endpoint(req, reg, fate) ==
    IF req.http_method = "GET"
    THEN [kind |-> "initialize", http |-> 200, id |-> "None", code |-> 0,
          message |-> <<>>, result |-> "",
          tools |-> get_registered_tools_metadata(reg)]
    ELSE IF req.method \in {"None", ""}
    THEN ErrorEnvelope(req.id, InvalidRequest, <<"Method not provided">>, 400)
    ELSE IF get_tool_function(reg, req.method) = "None"
    THEN ErrorEnvelope(req.id, MethodNotFound,
                       <<"Method '", req.method, "' not found">>, 404)
    ELSE LET out == wrapper(HandlerOutcome(req.params, fate)) IN
         IF out.status = "ok"
         THEN [kind |-> "result", http |-> 200, id |-> req.id, code |-> 0,
               message |-> <<>>, result |-> out.text, tools |-> <<>>]
         ELSE ErrorEnvelope(req.id, InternalError,
                            <<"Tool execution error: ">> \o out.err.msg, 500)

\* rpc.py:40-47  the handlers a request gets called.
HandlersInvoked(req, reg) ==
    IF /\ req.http_method = "POST"
       /\ req.method \notin {"None", ""}
       /\ get_tool_function(reg, req.method) # "None"
    THEN {get_tool_function(reg, req.method)}
    ELSE {}

\* rpc.py:8  the import fails: the endpoint's module never loads, and a request
\* routed to it is answered by the server's error page.
ImportFailure ==
    [kind |-> "server_error", http |-> 500, id |-> "None", code |-> 0,
     message |-> <<"ImportError: cannot import name 'get_tool_function'">>,
     result |-> "", tools |-> <<>>]


\* --------------------------------------------------- the generation tools
\* functions.py:90-231  the five tools that call the text-generation service.
GenerationTools ==
    {"generateStudyPlan", "summarizeText", "generateQuiz", "generateFlashcards",
     "recommendResources"}

\* Values of settings.OPENAI_API_KEY: "None" when the setting is unset, the
\* empty string, or a key.
ApiKeys == {"None", "", "sk-test", "sk-live"}

\* Python truth of the setting: None and '' are false.
Truthy(key) == key \notin {"None", ""}

\* functions.py:97  OpenAIAPIError("OpenAI API key not configured.")
OpenAIKeyError ==
    [kind |-> "OpenAIAPIError", msg |-> <<"OpenAI API key not configured.">>]

\* A guard written `is None`: an empty key goes on to the service.
KeyGuard_none_only(key) ==
    IF key = "None" THEN Raised(OpenAIKeyError, OpenAIKeyError) ELSE NoResult

\* functions.py:96-97 (and 126-127, 153-154, 182-183, 210-211)
\* if not settings.OPENAI_API_KEY: raise OpenAIAPIError(...); status "none"
\* when the function goes on to the try block.
KeyGuard(key) ==
    IF ~Truthy(key) THEN Raised(OpenAIKeyError, OpenAIKeyError) ELSE NoResult

\* HTTP error statuses of the service.
StatusCodes == {"401", "429", "500"}

\* What comes back from openai_client.chat.completions.create: a completion
\* with text, an error status (openai.APIStatusError), no connection
\* (openai.APIConnectionError, an APIError without status_code), or a
\* completion whose message content is None.
UpstreamOutcomes == {"content", "connection_error", "no_content"} \cup StatusCodes

APIStatusError(code) == [kind |-> "APIStatusError", msg |-> <<"Error code: ", code>>]
APIConnectionError == [kind |-> "APIConnectionError", msg |-> <<"Connection error.">>]
NoneStripError ==
    [kind |-> "AttributeError", msg |-> <<"'NoneType' object has no attribute 'strip'">>]

\* functions.py:113-117 (and the same lines of the other four tools): the
\* return and the two except clauses. Formatting e.status_code of an error
\* that has none raises AttributeError inside the first handler, which leaves
\* the try statement as it is.
AfterReply(outcome) ==
    IF outcome = "content" THEN Returned("generated text", 0, 0)
    ELSE IF outcome \in StatusCodes
    THEN Raised([kind |-> "OpenAIAPIError",
                 msg |-> <<"OpenAI API error: ", outcome, " - ",
                           "<Response [", outcome, "]>">>],
                APIStatusError(outcome))
    ELSE IF outcome = "connection_error"
    THEN Raised([kind |-> "AttributeError",
                 msg |-> <<"'APIConnectionError' object has no attribute 'status_code'">>],
                APIConnectionError)
    ELSE Raised([kind |-> "Exception",
                 msg |-> <<"An unexpected error occurred: ">> \o NoneStripError.msg],
                NoneStripError)

\* serializers.py:15-20  SummarizeSerializer: text of at least 10 characters.
MinTextLength == 10
TextLengths == {5, 20}
SummarizeValid(text_length) == text_length >= MinTextLength

\* views.py:29-44  the response SummarizeTextView builds.
SummarizeResponse(r) ==
    IF r.status = "ok" THEN [code |-> 200, body |-> <<r.text>>]
    ELSE IF r.status = "error"
    THEN IF r.err.kind = "OpenAIAPIError"
         THEN [code |-> 500, body |-> <<"OpenAI API Error: ">> \o r.err.msg]
         ELSE [code |-> 500, body |-> <<"An unexpected error occurred: ">> \o r.err.msg]
    ELSE [code |-> 400, body |-> <<"validation errors">>]

\* What the caller of a generation tool sees, through the wrapper and, for the
\* summarize view, as an HTTP response.
GenDeliver(via, r) ==
    IF r.status = "none" THEN r
    ELSE IF via = "view"
    THEN [wrapper(r) EXCEPT !.response = SummarizeResponse(wrapper(r))]
    ELSE wrapper(r)

\* A generation invocation: the tool, how it was reached, where it is ("idle",
\* "guard" before the key check, "call" before the request, "await" with the
\* request sent, "done"), the requests it sent to the service, its outcome.
NoGen == [tool |-> "", via |-> "none", pc |-> "idle", calls |-> 0, result |-> NoResult]


\* ----------------------------------------------------------------- history
Keys == Users \X Topics

RECURSIVE SumHours(_, _)
SumHours(st, S) ==
    IF S = {} THEN 0
    ELSE LET i == CHOOSE j \in S : TRUE IN st[i].hours + SumHours(st, S \ {i})

\* Everything stored for a key on a day, over all its rows.
StoredTotal(st, u, t, d) == SumHours(st, Matching(st, u, t, d))

\* The hours of the key's record as the program reads it.
StoredHours(st, u, t, d) == QueryFirst(st, u, t, d).hours

InFlight(p) == {q \in Procs \ {p} : pc[q] \in {"query", "write"}}

ZeroSums == [k \in Keys |-> 0]

SameKey(c1, c2) ==
    /\ c1.user_id = c2.user_id /\ c1.topic = c2.topic
    /\ c1.current_date = c2.current_date

\* ------------------------------------------------------------------ actions
Init ==
    /\ store = <<>>
    /\ today = 0
    /\ pc = [p \in Procs |-> "idle"]
    /\ call = [p \in Procs |-> NoCall]
    /\ entry = [p \in Procs |-> NoEntry]
    /\ result = [p \in Procs |-> NoResult]
    /\ ncalls = 0
    /\ base = [p \in Procs |-> 0]
    /\ overlaps = [p \in Procs |-> 0]
    /\ seqOnly = TRUE
    /\ seqSum = ZeroSums
    /\ seqFail = FALSE
    /\ registry = RegistryAtImport
    /\ rpcReq = NoRequest
    /\ rpcResp = NoRpcResp
    /\ invoked = {}
    /\ api_key = "sk-test"
    /\ gen = NoGen

\* A call of track_progress begins: functions.py:238-243 (date.today(), log).
Begin(p, c) ==
    LET others == InFlight(p)
        peers == {q \in others : SameKey(call[q], c)}
        seq == seqOnly /\ others = {} /\ ~c.report_only /\ c.hours > 0
    IN
    /\ pc' = [pc EXCEPT ![p] = "query"]
    /\ call' = [call EXCEPT ![p] = c]
    /\ entry' = [entry EXCEPT ![p] = NoEntry]
    /\ result' = [result EXCEPT ![p] = NoResult]
    /\ ncalls' = ncalls + 1
    /\ base' = [base EXCEPT ![p] =
                    IF peers # {} THEN base[CHOOSE q \in peers : TRUE]
                    ELSE StoredTotal(store, c.user_id, c.topic, c.current_date)]
    /\ overlaps' = [q \in Procs |->
                        IF q = p THEN Cardinality(others)
                        ELSE IF q \in others THEN overlaps[q] + 1
                        ELSE overlaps[q]]
    /\ seqOnly' = seq
    /\ seqSum' = IF seq
                 THEN [seqSum EXCEPT ![<<c.user_id, c.topic>>] = @ + c.hours]
                 ELSE ZeroSums
    /\ seqFail' = (seq /\ seqFail)
    /\ UNCHANGED <<store, today>>
    /\ UNCHANGED toolVars

\* The tool is called directly (by the orchestration client or another module).
Invoke(p) ==
    /\ pc[p] = "idle"
    /\ ncalls < MaxCalls
    /\ \E u \in Users, t \in Topics, a \in DirectArgs :
          Begin(p, [via |-> "direct", user_id |-> u, topic |-> t, hours |-> a.h,
                    kind |-> a.kind, report_only |-> a.ro, current_date |-> today])

\* views.py:56-81  TrackProgressView.post with a body that validates: the tool
\* is called with the authenticated user's name and the parsed Decimal.
ViewPost(p) ==
    /\ pc[p] = "idle"
    /\ ncalls < MaxCalls
    /\ \E u \in Users, posted \in Users \cup {""}, t \in Topics, a \in ViewArgs :
          /\ SerializerValid(posted, a.h, a.ro)
          /\ Begin(p, [via |-> "view", user_id |-> u, topic |-> t, hours |-> a.h,
                       kind |-> "decimal", report_only |-> a.ro, current_date |-> today])

\* views.py:56-81  TrackProgressView.post with a body the serializer refuses:
\* 400, and track_progress is not called.
ViewReject(p) ==
    /\ pc[p] = "idle"
    /\ ncalls < MaxCalls
    /\ \E u \in Users, posted \in Users \cup {""}, t \in Topics, a \in ViewArgs :
          /\ ~SerializerValid(posted, a.h, a.ro)
          /\ call' = [call EXCEPT ![p] = [NoCall EXCEPT !.via = "view"]]
          /\ result' = [result EXCEPT ![p] =
                 [NoResult EXCEPT !.status = "invalid",
                                  !.response = ViewResponse([NoResult EXCEPT !.status = "invalid"])]]
    /\ pc' = [pc EXCEPT ![p] = "done"]
    /\ ncalls' = ncalls + 1
    /\ UNCHANGED <<store, today, entry, base, overlaps, seqOnly, seqSum, seqFail>>
    /\ UNCHANGED toolVars

\* One step of a call took effect.
Apply(p, s) ==
    /\ pc' = [pc EXCEPT ![p] = s.pc]
    /\ entry' = [entry EXCEPT ![p] = s.entry]
    /\ store' = s.store
    /\ result' = [result EXCEPT ![p] = Deliver(call[p], s.result)]
    /\ seqFail' = (seqFail \/ (seqOnly /\ s.result.status = "error"))
    /\ UNCHANGED <<today, call, ncalls, base, overlaps, seqOnly, seqSum>>
    /\ UNCHANGED toolVars

\* functions.py:246-262  the SELECT, and the return of the branches that do not write.
Query(p) ==
    /\ pc[p] = "query"
    /\ Apply(p, AfterQuery(call[p], store))

\* functions.py:264-277  the UPDATE or INSERT, the commit and the return.
Write(p) ==
    /\ pc[p] = "write"
    /\ Apply(p, AfterWrite(call[p], entry[p], store, today))

\* The response has been sent: the worker is free for the next request.
Finish(p) ==
    /\ pc[p] = "done"
    /\ pc' = [pc EXCEPT ![p] = "idle"]
    /\ call' = [call EXCEPT ![p] = NoCall]
    /\ entry' = [entry EXCEPT ![p] = NoEntry]
    /\ result' = [result EXCEPT ![p] = NoResult]
    /\ base' = [base EXCEPT ![p] = 0]
    /\ overlaps' = [overlaps EXCEPT ![p] = 0]
    /\ UNCHANGED <<store, today, ncalls, seqOnly, seqSum, seqFail>>
    /\ UNCHANGED toolVars

\* Midnight passes.
Tick ==
    /\ today < MaxDay
    /\ today' = today + 1
    /\ seqOnly' = FALSE
    /\ seqSum' = ZeroSums
    /\ seqFail' = FALSE
    /\ UNCHANGED <<store, pc, call, entry, result, ncalls, base, overlaps>>
    /\ UNCHANGED toolVars

Next ==
    \/ \E p \in Procs : Invoke(p)
    \/ \E p \in Procs : ViewPost(p)
    \/ \E p \in Procs : ViewReject(p)
    \/ \E p \in Procs : Query(p)
    \/ \E p \in Procs : Write(p)
    \/ \E p \in Procs : Finish(p)
    \/ Tick

Spec == Init /\ [][Next]_vars

\* A request to the RPC endpoint, GET or POST.
Dispatch ==
    /\ \E hm \in {"GET", "POST"}, id \in RpcIds, m \in RpcMethods, ps \in RpcParams,
          fate \in {"returns", "raises"} :
          LET req == [http_method |-> hm, id |-> id, method |-> m, params |-> ps] IN
          /\ rpcReq' = req
          /\ rpcResp' = IF RpcModuleLoads THEN rpc_endpoint(req, registry, fate)
                        ELSE ImportFailure
          /\ invoked' = IF RpcModuleLoads THEN HandlersInvoked(req, registry) ELSE {}
    /\ UNCHANGED <<registry, api_key, gen>>
    /\ UNCHANGED progressVars

\* functions.py:21-78  tool(name, description)(func): one more registration.
Register ==
    /\ Len(registry) < MaxTools
    /\ \E n \in NewToolNames, sig \in NewToolSigs :
          registry' = Registered(registry, n, "A tool added later.", sig)
    /\ UNCHANGED <<rpcReq, rpcResp, invoked, api_key, gen>>
    /\ UNCHANGED progressVars

NextTools == Dispatch \/ Register

SpecTools == Init /\ [][NextTools]_vars

\* A generation tool is called directly: functions.py:63-64, 94-95 (the
\* wrapper's log and the tool's log).
GenInvoke ==
    /\ gen.pc = "idle"
    /\ \E t \in GenerationTools :
          gen' = [NoGen EXCEPT !.tool = t, !.via = "direct", !.pc = "guard"]
    /\ UNCHANGED <<registry, rpcReq, rpcResp, invoked, api_key>>
    /\ UNCHANGED progressVars

\* views.py:21-45  SummarizeTextView.post: summarize_text is called when the
\* body validates, 400 otherwise.
SummarizePost ==
    /\ gen.pc = "idle"
    /\ \E n \in TextLengths :
          gen' = IF SummarizeValid(n)
                 THEN [NoGen EXCEPT !.tool = "summarizeText", !.via = "view",
                                    !.pc = "guard"]
                 ELSE [NoGen EXCEPT !.via = "view", !.pc = "done",
                          !.result = [NoResult EXCEPT !.status = "invalid",
                             !.response = SummarizeResponse(
                                             [NoResult EXCEPT !.status = "invalid"])]]
    /\ UNCHANGED <<registry, rpcReq, rpcResp, invoked, api_key>>
    /\ UNCHANGED progressVars

\* functions.py:96-97  the check of the key.
GenGuard ==
    /\ gen.pc = "guard"
    /\ gen' = IF KeyGuard(api_key).status = "error"
              THEN [gen EXCEPT !.pc = "done",
                               !.result = GenDeliver(gen.via, KeyGuard(api_key))]
              ELSE [gen EXCEPT !.pc = "call"]
    /\ UNCHANGED <<registry, rpcReq, rpcResp, invoked, api_key>>
    /\ UNCHANGED progressVars

\* functions.py:107-112  openai_client.chat.completions.create(...): the
\* request goes out to the service.
GenCall ==
    /\ gen.pc = "call"
    /\ gen' = [gen EXCEPT !.pc = "await", !.calls = @ + 1]
    /\ UNCHANGED <<registry, rpcReq, rpcResp, invoked, api_key>>
    /\ UNCHANGED progressVars

\* functions.py:113-117  the service's answer, and the tool's return or raise.
GenReply ==
    /\ gen.pc = "await"
    /\ \E o \in UpstreamOutcomes :
          gen' = [gen EXCEPT !.pc = "done",
                             !.result = GenDeliver(gen.via, AfterReply(o))]
    /\ UNCHANGED <<registry, rpcReq, rpcResp, invoked, api_key>>
    /\ UNCHANGED progressVars

\* The caller has its answer.
GenFinish ==
    /\ gen.pc = "done"
    /\ gen' = NoGen
    /\ UNCHANGED <<registry, rpcReq, rpcResp, invoked, api_key>>
    /\ UNCHANGED progressVars

\* The setting takes another value (another deployment environment, or a
\* settings override) while no generation tool is running.
Configure ==
    /\ gen.pc = "idle"
    /\ \E k \in ApiKeys \ {api_key} : api_key' = k
    /\ UNCHANGED <<registry, rpcReq, rpcResp, invoked, gen>>
    /\ UNCHANGED progressVars

NextGen ==
    \/ GenInvoke
    \/ SummarizePost
    \/ GenGuard
    \/ GenCall
    \/ GenReply
    \/ GenFinish
    \/ Configure

SpecGen == Init /\ [][NextGen]_vars

\* ------------------------------------------------------------------ claims
AllSettled == \A p \in Procs : pc[p] \in {"idle", "done"}

Recorded(p) == pc[p] = "done" /\ result[p].status = "ok" /\ ~call[p].report_only

\* C1: two concurrent recording calls with hours = 1.0 each for the same
\* (user, topic, day) that overlap only each other leave, once both have
\* returned (the day not having changed), 2.0 hours more stored for the key,
\* summed over all its rows, than when the first began.
C1_NoLostUpdate ==
    \A p, q \in Procs :
        ( /\ p # q
          /\ Recorded(p) /\ Recorded(q)
          /\ call[p].hours = OneHour /\ call[q].hours = OneHour
          /\ SameKey(call[p], call[q])
          /\ today = call[p].current_date
          /\ overlaps[p] = 1 /\ overlaps[q] = 1 )
        => StoredTotal(store, call[p].user_id, call[p].topic, call[p].current_date)
              = base[p] + 2 * OneHour

\* C2: the table never holds two rows for the same (user_id, topic, day).
C2_OneRecordPerKeyDay ==
    \A i, j \in 1..Len(store) :
        ( /\ store[i].user_id = store[j].user_id
          /\ store[i].topic = store[j].topic
          /\ store[i].day = store[j].day )
        => i = j

\* C3: after any number of sequential recording calls with hours > 0 on one
\* day, starting from an empty table, no call has failed and every key's
\* record holds the sum of the hours contributed to it.
C3_SequentialSum ==
    (seqOnly /\ AllSettled)
        => /\ ~seqFail
           /\ \A k \in Keys : StoredHours(store, k[1], k[2], 0) = seqSum[k]

\* C4: every step of a report_only call leaves the table as it was, the call
\* never reaches the write, and it returns the hours of today's record when
\* there is one and the "no progress recorded" message when there is none.
C4_ReportOnlyFrame ==
    [][\A p \in Procs :
          (call'[p].report_only /\ pc'[p] # pc[p] /\ pc'[p] # "idle"
              /\ result'[p].status # "invalid")
          => /\ store' = store
             /\ pc'[p] \in {"query", "done"}
             /\ pc'[p] = "done" =>
                   LET m == Matching(store, call[p].user_id, call[p].topic,
                                     call[p].current_date) IN
                   /\ result'[p].status = "ok"
                   /\ IF m # {}
                      THEN /\ result'[p].text = "Your recorded progress"
                           /\ result'[p].total = store[Lowest(m)].hours
                      ELSE result'[p].text = "No study progress recorded"]_vars

C4_Witness ==
    \E p \in Procs :
        /\ pc[p] = "done" /\ call[p].report_only /\ call[p].hours > 0
        /\ result[p].text = "Your recorded progress" /\ result[p].total > 0
        /\ Len(store) > 0

\* C5: every step of a recording call with hours <= 0 leaves the table as it
\* was; the call returns after the query with the hours of today's record as
\* stored then (0 when there is none), which, when no other call overlapped
\* it and the key has one record, is the total stored when the call began.
C5_NoHoursFrame ==
    [][\A p \in Procs :
          (call'[p].via # "none" /\ ~call'[p].report_only /\ call'[p].hours <= 0
              /\ pc'[p] # pc[p] /\ pc'[p] # "idle" /\ result'[p].status # "invalid")
          => /\ store' = store
             /\ pc'[p] \in {"query", "done"}
             /\ pc'[p] = "done" =>
                   LET m == Matching(store, call[p].user_id, call[p].topic,
                                     call[p].current_date) IN
                   /\ result'[p].status = "ok"
                   /\ result'[p].text = "No new hours added"
                   /\ result'[p].total = (IF m = {} THEN 0 ELSE store[Lowest(m)].hours)
                   /\ (overlaps[p] = 0 /\ Cardinality(m) <= 1)
                         => result'[p].total = base[p]]_vars

C5_Witness ==
    \E p \in Procs :
        /\ pc[p] = "done" /\ ~call[p].report_only /\ call[p].hours <= 0
        /\ result[p].text = "No new hours added" /\ result[p].total > 0

\* C10 as stated: the failure that reaches the caller is the failure that
\* happened, unchanged in kind and message.
C10_OriginalFailureReachesCaller ==
    \A p \in Procs :
        (pc[p] = "done" /\ result[p].status = "error")
            => result[p].err = result[p].origin

\* C10 as amended: the wrapper hands the caller exactly the failure the tool
\* function raised and never turns a failure into a result; track_progress
\* itself raises a generic Exception whose message is "Error recording
\* progress: " followed by the original text; the view's 500 body carries it.
C10_WrapperReraisesUnchanged ==
    \A p \in Procs :
        (pc[p] = "done" /\ call[p].via # "none" /\ result[p].status # "invalid")
            => /\ result[p].status = "error" <=> result[p].origin # NoErr
               /\ result[p].err = result[p].raised
               /\ result[p].status = "error" =>
                     /\ result[p].err.kind = "Exception"
                     /\ result[p].err.msg =
                            <<"Error recording progress: ">> \o result[p].origin.msg
                     /\ call[p].via = "view" =>
                            result[p].response =
                                [code |-> 500,
                                 body |-> <<"Failed to track progress: ">>
                                             \o result[p].err.msg]

C10_Witness ==
    \E p \in Procs :
        /\ pc[p] = "done" /\ result[p].status = "error"
        /\ result[p].origin.kind = "TypeError"
        /\ result[p].err.kind = "Exception"

\* Whether the pieces `part` occur, in order and adjacent, in `whole`.
Contains(whole, part) ==
    \E i \in 0..(Len(whole) - Len(part)) :
        \A k \in 1..Len(part) : whole[i + k] = part[k]

Posted == rpcReq.http_method = "POST"

\* C6: a POST whose method is a non-empty name that is not in the registry is
\* answered with an error envelope of code -32601, and no handler is invoked.
C6_UnknownMethodCode ==
    (Posted /\ rpcReq.method \notin {"None", ""}
        /\ rpcReq.method \notin ToolNames(registry))
    => /\ rpcResp.kind = "error"
       /\ rpcResp.code = MethodNotFound
       /\ invoked = {}

\* C7: a POST whose method is missing or empty is answered with an error
\* envelope of code -32600, "Method not provided", whatever its id and
\* params, and no handler is invoked.
C7_MissingMethodCode ==
    (Posted /\ rpcReq.method \in {"None", ""})
    => /\ rpcResp.kind = "error"
       /\ rpcResp.code = InvalidRequest
       /\ rpcResp.message = <<"Method not provided">>
       /\ invoked = {}

\* C8: a POST that names a registered tool with params the handler raises on
\* is answered with an error envelope of code -32603 whose message contains
\* the error's text and whose id is the request's; never with a result.
C8_HandlerFailureCode ==
    (Posted /\ rpcReq.method \in ToolNames(registry)
        /\ rpcReq.params \in {"bad", "list"})
    => /\ rpcResp.kind = "error"
       /\ rpcResp.code = InternalError
       /\ rpcResp.id = rpcReq.id
       /\ Contains(rpcResp.message, HandlerOutcome(rpcReq.params, "returns").raised.msg)

\* C9: no tool name occurs in two entries of the registry.
C9_UniqueToolNames ==
    \A i, j \in 1..Len(registry) : registry[i].name = registry[j].name => i = j

\* C11: while settings.OPENAI_API_KEY is absent (unset or empty), an invocation
\* of any of the five generation tools sends no request to the text-generation
\* service at any point, never gets past the key check, and ends by raising
\* the configuration error "OpenAI API key not configured."; through the
\* summarize view that is a 500 carrying the message.
C11_NoKeyNoExternalCall ==
    (gen.tool \in GenerationTools /\ ~Truthy(api_key))
        => /\ gen.calls = 0
           /\ gen.pc \in {"guard", "done"}
           /\ gen.pc = "done" =>
                 /\ gen.result.status = "error"
                 /\ gen.result.err = OpenAIKeyError
                 /\ gen.via = "view" =>
                        gen.result.response =
                            [code |-> 500,
                             body |-> <<"OpenAI API Error: ",
                                        "OpenAI API key not configured.">>]

C11_Witness ==
    /\ gen.pc = "done" /\ gen.tool = "recommendResources"
    /\ api_key = "None"
    /\ gen.result.status = "error" /\ gen.result.err = OpenAIKeyError
    /\ gen.calls = 0

====
